---------------------------- MODULE Spec2Model ----------------------------
(***************************************************************************)
(* A model of wordpress-rest-api-fetcher.js: the URL normalizer, the CSV   *)
(* importer, the content fetcher, the report renderer and main.            *)
(*                                                                         *)
(* A JavaScript string is a sequence of one-character strings, so that     *)
(* toLowerCase, the regular expressions, split and join are computed       *)
(* character by character as the code computes them.                       *)
(***************************************************************************)
EXTENDS Integers, Sequences, FiniteSets, TLC

VARIABLES
    nIn,          \* normalizer harness: [segs, pos, day], the drawn input
    nOut,         \* normalizer harness: [once, twice, withDay], the results
    nDone,        \* normalizer harness: which applications have run
    records,      \* csvToJson: the rows parse() returned
    idx,          \* csvToJson: position of the for..of loop over records
    viewsData,    \* the viewsData object: its properties in insertion order
    processed,    \* csvToJson: let processed
    skipped,      \* csvToJson: let skipped
    cpc,          \* csvToJson: "idle" | "loop" | "done"
    site,         \* the remote site: the items its REST API can return
    fArgs,        \* fetchWordPressPosts: [postTypes, afterDate, page, perPage]
    fpc,          \* fetchWordPressPosts: "idle" | "loop" | "awaiting" | "returned"
    cat,          \* fetchWordPressPosts: position of the loop over postTypes
    inFlight,     \* axios.get calls issued and not yet settled
    requests,     \* every axios.get issued, in order
    outcomes,     \* how each category's request settled, and its response data
    allPosts,     \* fetchWordPressPosts: const allPosts (main: const posts)
    errors,       \* the post types console.error was called for
    sortInput,    \* generateMarkdownOutput: posts as passed in (history)
    markdown,     \* generateMarkdownOutput: the table rows pushed
    pc,           \* main: the position in main
    dateArg,      \* process.argv[2], or the empty string
    exitCode,     \* the process exit code, -1 while running
    dumpWrites,   \* fs.writeFile calls for views_data.json
    reportWrites  \* fs.writeFile calls for the Markdown report: file names

nvars == <<nIn, nOut, nDone>>
cvars == <<records, idx, viewsData, processed, skipped, cpc>>
fvars == <<site, fArgs, fpc, cat, inFlight, requests, outcomes, allPosts, errors>>
rvars == <<sortInput, markdown>>
mvars == <<pc, dateArg, exitCode, dumpWrites, reportWrites>>
vars == <<nvars, cvars, fvars, rvars, mvars>>

-----------------------------------------------------------------------------
(* Strings *)

Digits == {"0", "1", "2", "3", "4", "5", "6", "7", "8", "9"}

UpperCase == <<"A", "B", "C", "D", "E", "F", "G", "H", "I", "J", "K", "L", "M",
               "N", "O", "P", "Q", "R", "S", "T", "U", "V", "W", "X", "Y", "Z">>
LowerCase == <<"a", "b", "c", "d", "e", "f", "g", "h", "i", "j", "k", "l", "m",
               "n", "o", "p", "q", "r", "s", "t", "u", "v", "w", "x", "y", "z">>

\* String.prototype.toLowerCase, one character
ToLowerChar(c) ==
    IF \E i \in 1..Len(UpperCase) : UpperCase[i] = c
    THEN LowerCase[CHOOSE i \in 1..Len(UpperCase) : UpperCase[i] = c]
    ELSE c

toLowerCase(s) == [i \in 1..Len(s) |-> ToLowerChar(s[i])]

\* s.replace(/\/$/, ''): one trailing slash, if there is one
StripTrailingSlash(s) ==
    IF Len(s) > 0 /\ s[Len(s)] = "/" THEN SubSeq(s, 1, Len(s) - 1) ELSE s

\* s.replace(/^"|"$/g, ''): a leading and a trailing double quote
StripQuotes(s) ==
    LET a == IF Len(s) > 0 /\ s[1] = "\"" THEN Tail(s) ELSE s
    IN  IF Len(a) > 0 /\ a[Len(a)] = "\"" THEN SubSeq(a, 1, Len(a) - 1) ELSE a

RECURSIVE SplitAcc(_, _, _, _)
SplitAcc(s, i, cur, acc) ==
    IF i > Len(s) THEN Append(acc, cur)
    ELSE IF s[i] = "/" THEN SplitAcc(s, i + 1, <<>>, Append(acc, cur))
    ELSE SplitAcc(s, i + 1, Append(cur, s[i]), acc)

\* s.split('/')
split(s) == SplitAcc(s, 1, <<>>, <<>>)

RECURSIVE join(_)
\* parts.join('/')
join(parts) ==
    IF Len(parts) = 0 THEN <<>>
    ELSE IF Len(parts) = 1 THEN parts[1]
    ELSE parts[1] \o <<"/">> \o join(Tail(parts))

AllDigits(p) == \A i \in 1..Len(p) : p[i] \in Digits

\* /^\d{4}$/.test(part)
IsYear(p) == Len(p) = 4 /\ AllDigits(p)

\* /^\d{1,2}$/.test(part)
IsOneOrTwoDigits(p) == Len(p) \in {1, 2} /\ AllDigits(p)

-----------------------------------------------------------------------------
(* normalizeUrl *)

RECURSIVE NormalizeLoop(_, _, _)
\* the for loop of normalizeUrl; i is the 1-based loop index. A year that no
\* month follows is pushed by the year branch and again by the final push.
NormalizeLoop(parts, i, normalized) ==
    IF i > Len(parts) THEN normalized
    ELSE LET part == parts[i] IN
        IF IsYear(part)
        THEN IF i + 1 <= Len(parts) /\ IsOneOrTwoDigits(parts[i + 1])
             THEN LET pushed == normalized \o <<part, parts[i + 1]>> IN
                  IF i + 2 <= Len(parts) /\ IsOneOrTwoDigits(parts[i + 2])
                  THEN NormalizeLoop(parts, i + 3, pushed)
                  ELSE NormalizeLoop(parts, i + 2, pushed)
             ELSE NormalizeLoop(parts, i + 1, normalized \o <<part, part>>)
        ELSE NormalizeLoop(parts, i + 1, Append(normalized, part))

normalizeUrl(url) ==
    LET urlLower == StripTrailingSlash(toLowerCase(url))
        parts == split(urlLower)
    IN  join(NormalizeLoop(parts, 1, <<>>))

-----------------------------------------------------------------------------
(* The normalizer applied to drawn URLs *)

\* the longest URL drawn, in path segments
MaxSegs == 4

SegYear == <<"2", "0", "2", "4">>
SegMonth == <<"1", "2">>
SegDay == <<"0", "3">>
SegDigit == <<"4">>
SegSlug == <<"p">>
SegUpper == <<"P">>
SegEmpty == <<>>

\* the segments URLs are drawn from: a year, one- and two-digit segments,
\* slugs in both cases, and the empty segment of a doubled or trailing slash
SegVocab == {SegYear, SegMonth, SegDay, SegDigit, SegSlug, SegUpper, SegEmpty}

DayVocab == {SegDay, SegDigit}

SegLists == UNION {[1..n -> SegVocab] : n \in 1..MaxSegs}

\* the URL with the day segment put directly after the month at pos + 1
InsertDay(segs, pos, day) ==
    SubSeq(segs, 1, pos + 1) \o <<day>> \o SubSeq(segs, pos + 2, Len(segs))

HasYearMonthAt(segs, pos) ==
    /\ pos + 1 <= Len(segs)
    /\ IsYear(segs[pos])
    /\ IsOneOrTwoDigits(segs[pos + 1])

NormIdle ==
    /\ nIn = [segs |-> <<SegEmpty>>, pos |-> 1, day |-> SegDay]
    /\ nOut = [once |-> <<>>, twice |-> <<>>, withDay |-> <<>>]
    /\ nDone = {}

NormInit ==
    /\ nIn \in [segs : SegLists, pos : 1..MaxSegs, day : DayVocab]
    /\ nIn.pos <= Len(nIn.segs)
    /\ nOut = [once |-> <<>>, twice |-> <<>>, withDay |-> <<>>]
    /\ nDone = {}

\* normalizeUrl(url)
ApplyNormalize ==
    /\ "once" \notin nDone
    /\ nOut' = [nOut EXCEPT !.once = normalizeUrl(join(nIn.segs))]
    /\ nDone' = nDone \cup {"once"}
    /\ UNCHANGED <<nIn, cvars, fvars, rvars, mvars>>

\* normalizeUrl(normalizeUrl(url))
ApplyNormalizeAgain ==
    /\ "once" \in nDone
    /\ "twice" \notin nDone
    /\ nOut' = [nOut EXCEPT !.twice = normalizeUrl(nOut.once)]
    /\ nDone' = nDone \cup {"twice"}
    /\ UNCHANGED <<nIn, cvars, fvars, rvars, mvars>>

\* normalizeUrl(url with a day segment after its year/month pair)
ApplyNormalizeWithDay ==
    /\ "withDay" \notin nDone
    /\ HasYearMonthAt(nIn.segs, nIn.pos)
    /\ nOut' = [nOut EXCEPT
           !.withDay = normalizeUrl(join(InsertDay(nIn.segs, nIn.pos, nIn.day)))]
    /\ nDone' = nDone \cup {"withDay"}
    /\ UNCHANGED <<nIn, cvars, fvars, rvars, mvars>>

-----------------------------------------------------------------------------
(* csvToJson *)

DigitChars == <<"0", "1", "2", "3", "4", "5", "6", "7", "8", "9">>

DigitValue(c) == (CHOOSE n \in 1..10 : DigitChars[n] = c) - 1

\* a JavaScript number that is an integer, and NaN
Num(n) == [nan |-> FALSE, n |-> n]
NaN == [nan |-> TRUE, n |-> 0]

RECURSIVE LeadingDigitsValue(_, _, _)
LeadingDigitsValue(s, i, acc) ==
    IF i > Len(s) \/ s[i] \notin Digits THEN acc
    ELSE LeadingDigitsValue(s, i + 1, acc * 10 + DigitValue(s[i]))

RECURSIVE SkipWhiteSpace(_)
SkipWhiteSpace(s) ==
    IF Len(s) > 0 /\ s[1] = " " THEN SkipWhiteSpace(Tail(s)) ELSE s

\* parseInt(s, 10): leading white space, a sign, then the longest run of
\* digits; NaN when no digit follows
parseInt(s) ==
    LET t == SkipWhiteSpace(s)
        signed == Len(t) > 0 /\ t[1] \in {"-", "+"}
        u == IF signed THEN Tail(t) ELSE t
        sign == IF signed /\ t[1] = "-" THEN -1 ELSE 1
    IN  IF Len(u) = 0 \/ u[1] \notin Digits THEN NaN
        ELSE Num(sign * LeadingDigitsValue(u, 1, 0))

HasKey(vd, key) == \E i \in 1..Len(vd) : vd[i].url = key

\* viewsData[key] = rec: a property that exists keeps its place
SetProperty(vd, key, rec) ==
    LET entry == [url |-> key, title |-> rec.title, views |-> rec.views]
    IN  IF HasKey(vd, key)
        THEN [i \in 1..Len(vd) |-> IF vd[i].url = key THEN entry ELSE vd[i]]
        ELSE Append(vd, entry)

\* the destructured row: a missing column is undefined
RowUrlDefined(row) == Len(row) >= 3

\* the try block throws a TypeError at url.replace when url is undefined and
\* at no other place: title is always a string and parseInt does not throw
RowThrows(row) == ~RowUrlDefined(row)

\* the try block: lines 78 to 82
ImportRow(vd, row) ==
    LET cleanUrl == StripTrailingSlash(StripQuotes(row[3]))
    IN  SetProperty(vd, cleanUrl,
            [title |-> StripQuotes(row[1]), views |-> parseInt(row[2])])

RECURSIVE ImportRows(_, _, _)
\* the whole loop of csvToJson, for the callers that only use its result
ImportRows(vd, rows, i) ==
    IF i > Len(rows) THEN vd
    ELSE IF RowThrows(rows[i]) THEN ImportRows(vd, rows, i + 1)
    ELSE ImportRows(ImportRow(vd, rows[i]), rows, i + 1)

\* the most rows a drawn CSV file has
MaxRows == 2

TitleVocab == {<<"t">>, <<"\"", "u", "\"">>}
ViewsVocab == {<<"4", "2">>, <<"7">>, <<"x">>, <<"7", "x">>, <<"-", "1">>}
UrlVocab == {<<"a">>, <<"a", "/">>, <<"A">>, <<>>, <<"\"", "b", "\"">>}

\* parse() gives every record the column count of the first one
ColumnCounts == {2, 3}

RowsOf(n) ==
    IF n = 2 THEN {<<t, v>> : t \in TitleVocab, v \in ViewsVocab}
    ELSE {<<t, v, u>> : t \in TitleVocab, v \in ViewsVocab, u \in UrlVocab}

CsvInputs ==
    UNION {UNION {[1..len -> RowsOf(n)] : len \in 0..MaxRows} : n \in ColumnCounts}

CsvIdle ==
    /\ records = <<>>
    /\ idx = 1
    /\ viewsData = <<>>
    /\ processed = 0
    /\ skipped = 0
    /\ cpc = "idle"

\* csvToJson called on a drawn file: the state after line 74
CsvInit ==
    /\ records \in CsvInputs
    /\ idx = 1
    /\ viewsData = <<>>
    /\ processed = 0
    /\ skipped = 0
    /\ cpc = "loop"

\* one iteration whose try block completes
CsvRowImported ==
    /\ cpc = "loop"
    /\ idx <= Len(records)
    /\ ~RowThrows(records[idx])
    /\ viewsData' = ImportRow(viewsData, records[idx])
    /\ processed' = processed + 1
    /\ idx' = idx + 1
    /\ UNCHANGED <<records, skipped, cpc, nvars, fvars, rvars, mvars>>

\* one iteration whose try block throws: the catch
CsvRowSkipped ==
    /\ cpc = "loop"
    /\ idx <= Len(records)
    /\ RowThrows(records[idx])
    /\ skipped' = skipped + 1
    /\ idx' = idx + 1
    /\ UNCHANGED <<records, viewsData, processed, cpc, nvars, fvars, rvars, mvars>>

\* the loop is over: the counts are logged and viewsData is returned
CsvReturn ==
    /\ cpc = "loop"
    /\ idx > Len(records)
    /\ cpc' = "done"
    /\ UNCHANGED <<records, idx, viewsData, processed, skipped,
                   nvars, fvars, rvars, mvars>>

CsvNext == CsvRowImported \/ CsvRowSkipped \/ CsvReturn

-----------------------------------------------------------------------------
(* fetchWordPressPosts *)

POST_TYPES == <<"snippets", "dev-blog-videos", "posts">>

\* the defaults of the destructured options: page = 1, perPage = 100
PageDefault == 1
PerPageDefault == 100

PadDigits(n, width) ==
    [i \in 1..width |->
        DigitChars[((n \div (IF i = width THEN 1
                             ELSE IF i = width - 1 THEN 10
                             ELSE IF i = width - 2 THEN 100
                             ELSE 1000)) % 10) + 1]]

\* new Date(post.date).toISOString().split('T')[0] of a valid date: the
\* calendar date <<year, month, day>> of the instant, as YYYY-MM-DD
IsoDate(d) == PadDigits(d[1], 4) \o <<"-">> \o PadDigits(d[2], 2)
                  \o <<"-">> \o PadDigits(d[3], 2)

\* a canonical array index: such property names come first, in numeric order
IsArrayIndex(k) ==
    /\ Len(k) \in 1..9
    /\ AllDigits(k)
    /\ (Len(k) = 1 \/ k[1] # "0")

InsertionOrder(vd, index) ==
    SelectSeq([i \in 1..Len(vd) |-> vd[i].url], LAMBDA k : IsArrayIndex(k) = index)

RECURSIVE SortIndexKeys(_)
SortIndexKeys(keys) ==
    IF Len(keys) = 0 THEN <<>>
    ELSE LET least == CHOOSE i \in 1..Len(keys) : \A j \in 1..Len(keys) :
                 LeadingDigitsValue(keys[i], 1, 0) <= LeadingDigitsValue(keys[j], 1, 0)
         IN  <<keys[least]>> \o
             SortIndexKeys(SubSeq(keys, 1, least - 1) \o SubSeq(keys, least + 1, Len(keys)))

\* Object.keys(viewsData)
ObjectKeys(vd) == SortIndexKeys(InsertionOrder(vd, TRUE)) \o InsertionOrder(vd, FALSE)

\* viewsData[key], for a key the object has
Property(vd, key) == vd[CHOOSE i \in 1..Len(vd) : vd[i].url = key]

\* Object.keys(viewsData).find(url => normalizeUrl(url) === normalizedPostUrl):
\* the first such key, or undefined
FindMatch(vd, normalizedPostUrl) ==
    LET keys == ObjectKeys(vd)
        hits == {i \in 1..Len(keys) : normalizeUrl(keys[i]) = normalizedPostUrl}
    IN  IF hits = {} THEN [defined |-> FALSE, url |-> <<>>]
        ELSE [defined |-> TRUE,
              url |-> keys[CHOOSE i \in hits : \A j \in hits : i <= j]]

\* matchedUrl ? viewsData[matchedUrl].views : 0, where undefined and the
\* empty string are both falsy
ViewsOf(vd, matchedUrl) ==
    IF matchedUrl.defined /\ matchedUrl.url # <<>>
    THEN Property(vd, matchedUrl.url).views
    ELSE Num(0)

\* the loop body throws at normalizeUrl(undefined) when the item has no link
\* and at toISOString() when its date is invalid; nothing was pushed for it
ItemThrows(post) == ~post.hasLink \/ ~post.dateValid

\* the object pushed for one item: lines 127 to 144
MakeEntry(post, postType, vd) ==
    LET normalizedPostUrl == normalizeUrl(post.link)
        matchedUrl == FindMatch(vd, normalizedPostUrl)
    IN  [id |-> post.id,
         publication_date |-> IsoDate(post.date),
         url |-> post.link,
         type |-> postType,
         views |-> ViewsOf(vd, matchedUrl)]

RECURSIVE HandleItemsDropUnmatched(_, _, _, _, _)
\* HandleItems with an item that matches no views record left out
HandleItemsDropUnmatched(data, i, posts, postType, vd) ==
    IF i > Len(data) THEN [posts |-> posts, threw |-> FALSE]
    ELSE IF ItemThrows(data[i]) THEN [posts |-> posts, threw |-> TRUE]
    ELSE IF ~FindMatch(vd, normalizeUrl(data[i].link)).defined
    THEN HandleItemsDropUnmatched(data, i + 1, posts, postType, vd)
    ELSE HandleItemsDropUnmatched(data, i + 1,
             Append(posts, MakeEntry(data[i], postType, vd)), postType, vd)

RECURSIVE HandleItems(_, _, _, _, _)
\* for (const post of response.data), which runs without an await: the posts
\* pushed, and whether an item threw and ended the loop
HandleItems(data, i, posts, postType, vd) ==
    IF i > Len(data) THEN [posts |-> posts, threw |-> FALSE]
    ELSE IF ItemThrows(data[i]) THEN [posts |-> posts, threw |-> TRUE]
    ELSE HandleItems(data, i + 1,
             Append(posts, MakeEntry(data[i], postType, vd)), postType, vd)

\* the most items one response holds
MaxItems == 2

SegSite == <<"x">>
SegSiteUpper == <<"X">>

LinkWithDay == join(<<SegSite, SegYear, SegMonth, SegDay, SegSlug, SegEmpty>>)
KeyNoDay == join(<<SegSite, SegYear, SegMonth, SegSlug>>)
KeyUpper == join(<<SegSiteUpper, SegYear, SegMonth, SegUpper, SegEmpty>>)
KeyOther == join(<<SegSite, SegSlug>>)

ItemWithDay ==
    [id |-> 1, hasLink |-> TRUE, link |-> LinkWithDay,
     dateValid |-> TRUE, date |-> <<2024, 12, 3>>]
ItemEmptyLink ==
    [id |-> 2, hasLink |-> TRUE, link |-> <<>>,
     dateValid |-> TRUE, date |-> <<2024, 10, 10>>]
ItemNoLink ==
    [id |-> 3, hasLink |-> FALSE, link |-> <<>>,
     dateValid |-> TRUE, date |-> <<2024, 11, 5>>]
ItemBadDate ==
    [id |-> 4, hasLink |-> TRUE, link |-> LinkWithDay,
     dateValid |-> FALSE, date |-> <<0, 0, 0>>]

\* the sites fetchWordPressPosts is called against
Sites ==
    {{ItemWithDay, ItemNoLink}, {ItemWithDay, ItemEmptyLink}, {ItemEmptyLink, ItemBadDate}}

\* the bodies a request can be answered with: at most per_page items
Responses(items, perPage) ==
    UNION {[1..n -> items] : n \in {m \in 0..MaxItems : m <= perPage}}

RowTitle == <<"t">>

\* the CSV files the views data of a fetch is imported from
FetchCsvInputs ==
    {<<>>,
     <<<<RowTitle, <<"5">>, KeyNoDay>>>>,
     <<<<RowTitle, <<"n">>, KeyNoDay>>, <<RowTitle, <<"7">>, <<"/">>>>>>,
     <<<<RowTitle, <<"6">>, KeyOther>>, <<RowTitle, <<"8">>, KeyUpper>>,
       <<RowTitle, <<"5">>, KeyNoDay>>>>}

FetchIdle ==
    /\ site = {}
    /\ fArgs = [postTypes |-> <<>>, afterDate |-> <<>>,
                page |-> PageDefault, perPage |-> PerPageDefault]
    /\ fpc = "idle"
    /\ cat = 1
    /\ inFlight = 0
    /\ requests = <<>>
    /\ outcomes = <<>>
    /\ allPosts = <<>>
    /\ errors = <<>>

\* the state after line 107
FetchEntered(args) ==
    /\ fArgs' = args
    /\ fpc' = "loop"
    /\ cat' = 1
    /\ allPosts' = <<>>

\* fetchWordPressPosts called on drawn arguments: the state after line 107
FetchInit ==
    /\ site \in Sites
    /\ fArgs \in [postTypes : {POST_TYPES}, afterDate : {<<>>},
                  page : {PageDefault}, perPage : {1, PerPageDefault}]
    /\ fpc = "loop"
    /\ cat = 1
    /\ inFlight = 0
    /\ requests = <<>>
    /\ outcomes = <<>>
    /\ allPosts = <<>>
    /\ errors = <<>>

\* NextCategory with the same post type requested again
NextCategoryRetry(c) == c

\* after a category's try/catch the for..of loop takes the next post type
NextCategory(c) == c + 1

\* lines 111 to 124: the request is issued and the function awaits it
FetchIssueRequest ==
    /\ fpc = "loop"
    /\ cat <= Len(fArgs.postTypes)
    /\ requests' = Append(requests,
           [type |-> fArgs.postTypes[cat], page |-> fArgs.page,
            per_page |-> fArgs.perPage, after |-> fArgs.afterDate])
    /\ inFlight' = inFlight + 1
    /\ fpc' = "awaiting"
    /\ UNCHANGED <<site, fArgs, cat, outcomes, allPosts, errors,
                   nvars, cvars, rvars, mvars>>

\* FetchRequestFails with the error leaving the loop over postTypes
FetchRequestFailsAborts ==
    /\ fpc = "awaiting"
    /\ \E kind \in {"network", "status"} :
           outcomes' = Append(outcomes, [kind |-> kind, data |-> <<>>])
    /\ errors' = Append(errors, fArgs.postTypes[cat])
    /\ inFlight' = inFlight - 1
    /\ cat' = Len(fArgs.postTypes) + 1
    /\ fpc' = "loop"
    /\ UNCHANGED <<site, fArgs, requests, allPosts, nvars, cvars, rvars, mvars>>

\* axios.get rejects, on a network error or a non-2xx status: the catch
FetchRequestFails ==
    /\ fpc = "awaiting"
    /\ \E kind \in {"network", "status"} :
           outcomes' = Append(outcomes, [kind |-> kind, data |-> <<>>])
    /\ errors' = Append(errors, fArgs.postTypes[cat])
    /\ inFlight' = inFlight - 1
    /\ cat' = NextCategory(cat)
    /\ fpc' = "loop"
    /\ UNCHANGED <<site, fArgs, requests, allPosts, nvars, cvars, rvars, mvars>>

\* axios.get resolves and every item of the response is pushed
FetchResponseHandled ==
    /\ fpc = "awaiting"
    /\ \E data \in Responses(site, fArgs.perPage) :
           LET r == HandleItems(data, 1, allPosts, fArgs.postTypes[cat], viewsData)
           IN  /\ ~r.threw
               /\ allPosts' = r.posts
               /\ outcomes' = Append(outcomes, [kind |-> "ok", data |-> data])
    /\ inFlight' = inFlight - 1
    /\ cat' = NextCategory(cat)
    /\ fpc' = "loop"
    /\ UNCHANGED <<site, fArgs, requests, errors, nvars, cvars, rvars, mvars>>

\* axios.get resolves and an item of the response throws: the catch, with
\* the items before it already pushed
FetchResponseThrows ==
    /\ fpc = "awaiting"
    /\ \E data \in Responses(site, fArgs.perPage) :
           LET r == HandleItems(data, 1, allPosts, fArgs.postTypes[cat], viewsData)
           IN  /\ r.threw
               /\ allPosts' = r.posts
               /\ outcomes' = Append(outcomes, [kind |-> "threw", data |-> data])
    /\ errors' = Append(errors, fArgs.postTypes[cat])
    /\ inFlight' = inFlight - 1
    /\ cat' = NextCategory(cat)
    /\ fpc' = "loop"
    /\ UNCHANGED <<site, fArgs, requests, nvars, cvars, rvars, mvars>>

\* the loop over postTypes is over: return allPosts
FetchReturn ==
    /\ fpc = "loop"
    /\ cat > Len(fArgs.postTypes)
    /\ fpc' = "returned"
    /\ UNCHANGED <<site, fArgs, cat, inFlight, requests, outcomes, allPosts, errors,
                   nvars, cvars, rvars, mvars>>

FetchNext ==
    \/ FetchIssueRequest
    \/ FetchRequestFails
    \/ FetchResponseHandled
    \/ FetchResponseThrows
    \/ FetchReturn

-----------------------------------------------------------------------------
(* generateMarkdownOutput *)

\* the collation rank of the characters of a YYYY-MM-DD string: the hyphen
\* sorts before the digits, the digits in numeric order
CharRank(c) == IF c = "-" THEN 0 ELSE DigitValue(c) + 1

RECURSIVE CompareFrom(_, _, _)
CompareFrom(a, b, i) ==
    IF i > Len(a) /\ i > Len(b) THEN 0
    ELSE IF i > Len(a) THEN -1
    ELSE IF i > Len(b) THEN 1
    ELSE IF CharRank(a[i]) < CharRank(b[i]) THEN -1
    ELSE IF CharRank(a[i]) > CharRank(b[i]) THEN 1
    ELSE CompareFrom(a, b, i + 1)

\* a.localeCompare(b) on date strings: negative, zero or positive
localeCompare(a, b) == CompareFrom(a, b, 1)

\* ComparePosts with its operands exchanged
ComparePostsDescending(a, b) == localeCompare(b.publication_date, a.publication_date)

\* the comparator handed to sort: lines 170 to 172
ComparePosts(a, b) == localeCompare(a.publication_date, b.publication_date)

\* x put behind the last element that does not sort after it
InsertSorted(sorted, x) ==
    LET notAfter == {i \in 1..Len(sorted) : ComparePosts(sorted[i], x) <= 0}
        at == IF notAfter = {} THEN 0
              ELSE CHOOSE i \in notAfter : \A j \in notAfter : j <= i
    IN  SubSeq(sorted, 1, at) \o <<x>> \o SubSeq(sorted, at + 1, Len(sorted))

RECURSIVE SortFrom(_, _, _)
SortFrom(posts, i, sorted) ==
    IF i > Len(posts) THEN sorted
    ELSE SortFrom(posts, i + 1, InsertSorted(sorted, posts[i]))

\* posts.sort(comparator): Array.prototype.sort is a stable sort
SortPosts(posts) == SortFrom(posts, 1, <<>>)

\* one table row: the fields the template of line 177 prints
TableRow(post) ==
    [date |-> post.publication_date, url |-> post.url, type |-> post.type,
     views |-> post.views, id |-> post.id]

\* the rows generateMarkdownOutput pushes behind the five header lines
MarkdownRows(posts) ==
    LET sortedPosts == SortPosts(posts)
    IN  [i \in 1..Len(sortedPosts) |-> TableRow(sortedPosts[i])]

\* the most posts a drawn report has
MaxPosts == 3

RenderDates == {<<2024, 10, 10>>, <<2024, 11, 5>>, <<2024, 11, 15>>, <<2023, 12, 30>>}

\* posts as fetchWordPressPosts builds them, told apart by their id
DrawnPosts ==
    UNION {{[i \in 1..n |->
                [id |-> i, publication_date |-> IsoDate(dates[i]), url |-> KeyOther,
                 type |-> "posts", views |-> Num(0)]] :
            dates \in [1..n -> RenderDates]} : n \in 0..MaxPosts}

RenderIdle ==
    /\ sortInput = <<>>
    /\ markdown = <<>>

\* generateMarkdownOutput(posts, inputDate): posts is sorted in place
Rendered ==
    /\ sortInput' = allPosts
    /\ allPosts' = SortPosts(allPosts)
    /\ markdown' = MarkdownRows(allPosts)

\* generateMarkdownOutput called on drawn posts
RenderReport ==
    /\ pc = "render"
    /\ Rendered
    /\ pc' = "rendered"
    /\ UNCHANGED <<nvars, cvars, site, fArgs, fpc, cat, inFlight, requests,
                   outcomes, errors, dateArg, exitCode, dumpWrites, reportWrites>>

-----------------------------------------------------------------------------
(* main *)

DateIso == <<"2", "0", "2", "4", "-", "0", "9", "-", "3", "0">>
DateSlashes == <<"2", "0", "2", "4", "/", "1", "0", "/", "0", "1">>
DateGarbage == <<"n", "o", "/", "d", "a", "t", "e", "!">>

\* process.argv[2] || '': no argument, two dates and a string that is none
DateArgs == {<<>>, DateIso, DateSlashes, DateGarbage}

\* !isNaN(new Date(dateStr)): whether the Date constructor parses the string
DateParses(dateStr) == dateStr \in {DateIso, DateSlashes}

FileNameChars ==
    Digits \cup {"-", "_"}
        \cup {UpperCase[i] : i \in 1..Len(UpperCase)}
        \cup {LowerCase[i] : i \in 1..Len(LowerCase)}

FilePrefix == <<"d", "e", "v", "b", "l", "o", "g", "n", "e", "w", "s", "-">>
AllLabel == <<"a", "l", "l">>

\* `devblognews-${dateInput || 'all'}`.replace(/[^a-z0-9-_]/gi, '') + '.md'
SafeFileName(dateInput) ==
    SelectSeq(FilePrefix \o (IF dateInput = <<>> THEN AllLabel ELSE dateInput),
              LAMBDA c : c \in FileNameChars)
        \o <<".", "m", "d">>

\* the files main reads: an empty file, a file with one row, and a file of
\* two-column rows, whose url column is missing
MainCsvInputs ==
    {<<>>,
     <<<<RowTitle, <<"5">>, KeyNoDay>>>>,
     <<<<RowTitle, <<"5">>>>>>}

\* the remote site main runs against
MainSites == {{ItemWithDay, ItemNoLink}}

MainIdle ==
    /\ pc = "unit"
    /\ dateArg = <<>>
    /\ exitCode = -1
    /\ dumpWrites = 0
    /\ reportWrites = <<>>

MainInit ==
    /\ pc = "start"
    /\ dateArg \in DateArgs
    /\ exitCode = -1
    /\ dumpWrites = 0
    /\ reportWrites = <<>>

\* lines 190 to 194: the file is read and parsed, csvToJson starts its loop
MainLoadCsv ==
    /\ pc = "start"
    /\ records' \in MainCsvInputs
    /\ idx' = 1
    /\ viewsData' = <<>>
    /\ processed' = 0
    /\ skipped' = 0
    /\ cpc' = "loop"
    /\ pc' = "csv"
    /\ UNCHANGED <<nvars, fvars, rvars, dateArg, exitCode, dumpWrites, reportWrites>>

\* fs.readFile rejects (the file is missing) or parse() throws: the outer catch
MainLoadCsvFails ==
    /\ pc = "start"
    /\ pc' = "fatal"
    /\ exitCode' = 1
    /\ UNCHANGED <<nvars, cvars, fvars, rvars, dateArg, dumpWrites, reportWrites>>

\* lines 197 to 201: csvToJson has returned, views_data.json is written
MainWriteDump ==
    /\ pc = "csv"
    /\ cpc = "done"
    /\ dumpWrites' = dumpWrites + 1
    /\ pc' = "date"
    /\ UNCHANGED <<nvars, cvars, fvars, rvars, dateArg, exitCode, reportWrites>>

\* the write of views_data.json rejects: the outer catch
MainWriteDumpFails ==
    /\ pc = "csv"
    /\ cpc = "done"
    /\ dumpWrites' = dumpWrites + 1
    /\ pc' = "fatal"
    /\ exitCode' = 1
    /\ UNCHANGED <<nvars, cvars, fvars, rvars, dateArg, reportWrites>>

\* lines 204 to 222 without a date argument: afterDate stays null
MainFetchAll ==
    /\ pc = "date"
    /\ dateArg = <<>>
    /\ FetchEntered([postTypes |-> POST_TYPES, afterDate |-> <<>>,
                     page |-> PageDefault, perPage |-> PerPageDefault])
    /\ pc' = "fetch"
    /\ UNCHANGED <<nvars, cvars, site, inFlight, requests, outcomes, errors,
                   rvars, dateArg, exitCode, dumpWrites, reportWrites>>

\* lines 204 to 222 with a date argument parseDateInput accepts
MainFetchAfter ==
    /\ pc = "date"
    /\ dateArg # <<>>
    /\ DateParses(dateArg)
    /\ FetchEntered([postTypes |-> POST_TYPES, afterDate |-> dateArg,
                     page |-> PageDefault, perPage |-> PerPageDefault])
    /\ pc' = "fetch"
    /\ UNCHANGED <<nvars, cvars, site, inFlight, requests, outcomes, errors,
                   rvars, dateArg, exitCode, dumpWrites, reportWrites>>

\* DateRejected without the call of process.exit: main goes on unfiltered
DateRejectedGoesOn ==
    /\ FetchEntered([postTypes |-> POST_TYPES, afterDate |-> <<>>,
                     page |-> PageDefault, perPage |-> PerPageDefault])
    /\ pc' = "fetch"
    /\ UNCHANGED exitCode

\* what the catch of lines 210 to 213 does with the process
DateRejected ==
    /\ pc' = "dateExit"
    /\ exitCode' = 1
    /\ UNCHANGED <<fArgs, fpc, cat, allPosts>>

\* parseDateInput throws: the error is printed and process.exit(1) is called
MainDateRejected ==
    /\ pc = "date"
    /\ dateArg # <<>>
    /\ ~DateParses(dateArg)
    /\ DateRejected
    /\ UNCHANGED <<nvars, cvars, site, inFlight, requests, outcomes, errors,
                   rvars, dateArg, dumpWrites, reportWrites>>

\* HasPosts with the empty result taken for a result
HasPostsOrNone(posts) == Len(posts) >= 0

\* the test of line 224
HasPosts(posts) == Len(posts) > 0

\* lines 224 to 232: the report is rendered and written, main returns
MainWriteReport ==
    /\ pc = "fetch"
    /\ fpc = "returned"
    /\ HasPosts(allPosts)
    /\ Rendered
    /\ reportWrites' = Append(reportWrites, SafeFileName(dateArg))
    /\ pc' = "done"
    /\ exitCode' = 0
    /\ UNCHANGED <<nvars, cvars, site, fArgs, fpc, cat, inFlight, requests,
                   outcomes, errors, dateArg, dumpWrites>>

\* the write of the report rejects: the outer catch
MainWriteReportFails ==
    /\ pc = "fetch"
    /\ fpc = "returned"
    /\ HasPosts(allPosts)
    /\ Rendered
    /\ reportWrites' = Append(reportWrites, SafeFileName(dateArg))
    /\ pc' = "fatal"
    /\ exitCode' = 1
    /\ UNCHANGED <<nvars, cvars, site, fArgs, fpc, cat, inFlight, requests,
                   outcomes, errors, dateArg, dumpWrites>>

\* lines 233 to 235: 'No posts found.', main returns
MainNoPosts ==
    /\ pc = "fetch"
    /\ fpc = "returned"
    /\ ~HasPosts(allPosts)
    /\ pc' = "done"
    /\ exitCode' = 0
    /\ UNCHANGED <<nvars, cvars, fvars, rvars, dateArg, dumpWrites, reportWrites>>

-----------------------------------------------------------------------------
(* Specifications *)

\* normalizeUrl on drawn URLs
NextNormalize == ApplyNormalize \/ ApplyNormalizeAgain \/ ApplyNormalizeWithDay

InitNormalize == NormInit /\ CsvIdle /\ FetchIdle /\ RenderIdle /\ MainIdle
SpecNormalize == InitNormalize /\ [][NextNormalize]_vars

\* csvToJson on drawn files
InitCsv == NormIdle /\ CsvInit /\ FetchIdle /\ RenderIdle /\ MainIdle
SpecCsv == InitCsv /\ [][CsvNext]_vars

\* fetchWordPressPosts on drawn views data, against drawn sites
InitFetch ==
    /\ NormIdle
    /\ records = <<>>
    /\ idx = 1
    /\ viewsData \in {ImportRows(<<>>, rows, 1) : rows \in FetchCsvInputs}
    /\ processed = 0
    /\ skipped = 0
    /\ cpc = "idle"
    /\ FetchInit
    /\ RenderIdle
    /\ MainIdle
SpecFetch == InitFetch /\ [][FetchNext]_vars

\* generateMarkdownOutput on drawn posts
InitRender ==
    /\ NormIdle
    /\ CsvIdle
    /\ site = {}
    /\ fArgs = [postTypes |-> <<>>, afterDate |-> <<>>,
                page |-> PageDefault, perPage |-> PerPageDefault]
    /\ fpc = "idle"
    /\ cat = 1
    /\ inFlight = 0
    /\ requests = <<>>
    /\ outcomes = <<>>
    /\ allPosts \in DrawnPosts
    /\ errors = <<>>
    /\ RenderIdle
    /\ pc = "render"
    /\ dateArg = <<>>
    /\ exitCode = -1
    /\ dumpWrites = 0
    /\ reportWrites = <<>>
SpecRender == InitRender /\ [][RenderReport]_vars

\* main, from the start of the process to its exit
Init ==
    /\ NormIdle
    /\ CsvIdle
    /\ site \in MainSites
    /\ fArgs = [postTypes |-> <<>>, afterDate |-> <<>>,
                page |-> PageDefault, perPage |-> PerPageDefault]
    /\ fpc = "idle"
    /\ cat = 1
    /\ inFlight = 0
    /\ requests = <<>>
    /\ outcomes = <<>>
    /\ allPosts = <<>>
    /\ errors = <<>>
    /\ RenderIdle
    /\ MainInit

Next ==
    \/ MainLoadCsv
    \/ MainLoadCsvFails
    \/ CsvRowImported
    \/ CsvRowSkipped
    \/ CsvReturn
    \/ MainWriteDump
    \/ MainWriteDumpFails
    \/ MainFetchAll
    \/ MainFetchAfter
    \/ MainDateRejected
    \/ FetchIssueRequest
    \/ FetchRequestFails
    \/ FetchResponseHandled
    \/ FetchResponseThrows
    \/ FetchReturn
    \/ MainWriteReport
    \/ MainWriteReportFails
    \/ MainNoPosts

Spec == Init /\ [][Next]_vars

-----------------------------------------------------------------------------
(* Properties of normalizeUrl, checked under SpecNormalize *)

\* C1: for every URL with a four-digit segment followed by a one-or-two-digit
\* segment, and every one-or-two-digit day, the URL with the day put directly
\* after the month normalizes to the same string as the URL without it,
\* whatever segments precede the year or follow the month.
C1_DayFoldsAway ==
    ({"once", "withDay"} \subseteq nDone) => nOut.withDay = nOut.once

\* C2: normalizing a normalized URL gives the same string, for every URL.
C2_Idempotent ==
    ("twice" \in nDone) => nOut.twice = nOut.once

-----------------------------------------------------------------------------
(* Properties of csvToJson, checked under SpecCsv *)

\* the rows the importer is to keep: a url column and a views column that
\* parseInt reads a number from
RowIsNumeric(row) == RowUrlDefined(row) /\ ~parseInt(row[2]).nan

\* C4: when csvToJson returns, a row whose views column is not numeric has
\* added nothing to the mapping and was counted as skipped, every other row
\* was counted as processed, processed + skipped is the number of rows, and
\* the mapping holds integer views only.
C4_NonNumericRowsSkipped ==
    (cpc = "done") =>
        LET kept == {i \in 1..Len(records) : RowIsNumeric(records[i])}
        IN  /\ processed = Cardinality(kept)
            /\ skipped = Len(records) - Cardinality(kept)
            /\ processed + skipped = Len(records)
            /\ \A k \in 1..Len(viewsData) : ~viewsData[k].views.nan

-----------------------------------------------------------------------------
(* Properties of fetchWordPressPosts, checked under SpecFetch *)

\* the views records whose key normalizes to the same string as the URL
MatchingRecords(url) ==
    {k \in 1..Len(viewsData) : normalizeUrl(viewsData[k].url) = normalizeUrl(url)}

\* the entries of allPosts that carry the post type of category c
EntriesOf(c) == SelectSeq(allPosts, LAMBDA e : e.type = fArgs.postTypes[c])

\* C3: the views of every entry is a number; it is the views of a record
\* whose key normalizes to the same string as the entry's URL, and it is 0
\* exactly when no key does.
C3_JoinComplete ==
    \A i \in 1..Len(allPosts) :
        LET e == allPosts[i]
        IN  /\ ~e.views.nan
            /\ IF MatchingRecords(e.url) = {}
               THEN e.views = Num(0)
               ELSE \E k \in MatchingRecords(e.url) : e.views = viewsData[k].views

\* C5 as stated: a category that failed, by a request error, a non-success
\* status or an error raised while its response was handled, has no entry in
\* the result, and the request of every category has been issued when the
\* function returns.
C5_FailedCategoryAddsNothing ==
    /\ \A c \in 1..Len(outcomes) :
           outcomes[c].kind # "ok" => EntriesOf(c) = <<>>
    /\ (fpc = "returned") => Len(requests) = Len(fArgs.postTypes)

\* the items of a response that come before its first item that throws
HandledPrefix(data) ==
    LET throwing == {i \in 1..Len(data) : ItemThrows(data[i])}
    IN  IF throwing = {} THEN data
        ELSE SubSeq(data, 1, (CHOOSE i \in throwing : \A j \in throwing : i <= j) - 1)

\* C5, amended: a category whose request failed, by a request error or a
\* non-success status, has no entry in the result; a category whose response
\* raised an error while it was handled has the entries of the items before
\* the one that raised it, and no others; the entries of a category are those
\* of its own response, whatever happened to the other categories; every
\* failure is logged for its category, and when the function returns, which
\* it does by returning, the request of every category has been issued and
\* settled.
C5_FailuresIsolated ==
    /\ \A c \in 1..Len(outcomes) :
           LET o == outcomes[c]
               items == HandledPrefix(o.data)
           IN  /\ o.kind \in {"network", "status"} => EntriesOf(c) = <<>>
               /\ o.kind = "threw" => Len(EntriesOf(c)) < Len(o.data)
               /\ EntriesOf(c) =
                      [i \in 1..Len(items) |->
                          MakeEntry(items[i], fArgs.postTypes[c], viewsData)]
    /\ Len(errors) = Cardinality({c \in 1..Len(outcomes) : outcomes[c].kind # "ok"})
    /\ \A c \in 1..Len(outcomes) :
           outcomes[c].kind # "ok" => \E i \in 1..Len(errors) : errors[i] = fArgs.postTypes[c]
    /\ (fpc = "returned") =>
           /\ Len(requests) = Len(fArgs.postTypes)
           /\ Len(outcomes) = Len(fArgs.postTypes)

\* C5 witness: the function has returned after a first category whose second
\* item threw, a second whose request failed and a third that was handled
C5_PartialThenFailedThenHandled ==
    /\ fpc = "returned"
    /\ outcomes[1].kind = "threw"
    /\ Len(EntriesOf(1)) = 1
    /\ outcomes[2].kind \in {"network", "status"}
    /\ outcomes[3].kind = "ok"
    /\ Len(EntriesOf(3)) = 2

\* C6 as stated: every category whose request succeeded has exactly one entry
\* per item of its response, and the entries number the items of the
\* responses received.
C6_EntryPerResponseItem ==
    \A c \in 1..Len(outcomes) :
        outcomes[c].kind \in {"ok", "threw"} =>
            Len(EntriesOf(c)) = Len(outcomes[c].data)

RECURSIVE SumOfHandled(_)
SumOfHandled(c) ==
    IF c = 0 THEN 0 ELSE Len(HandledPrefix(outcomes[c].data)) + SumOfHandled(c - 1)

CategoryIndex(type) ==
    CHOOSE c \in 1..Len(fArgs.postTypes) : fArgs.postTypes[c] = type

\* C6, amended: for every category whose request succeeded the result holds
\* exactly one entry for each item before the first item whose handling
\* throws (for every item when none throws), in response order, with the
\* item's id and URL, whether or not a views record matches; the entries are
\* grouped in category order and number the sum of those items.
C6_EntryPerHandledItem ==
    /\ \A c \in 1..Len(outcomes) :
           LET items == HandledPrefix(outcomes[c].data)
               entries == EntriesOf(c)
           IN  /\ Len(entries) = Len(items)
               /\ \A i \in 1..Len(items) :
                      /\ entries[i].id = items[i].id
                      /\ entries[i].url = items[i].link
    /\ \A i, j \in 1..Len(allPosts) :
           i < j => CategoryIndex(allPosts[i].type) <= CategoryIndex(allPosts[j].type)
    /\ Len(allPosts) = SumOfHandled(Len(outcomes))

\* C6 witness: the function has returned a two-item response in full, with
\* an entry that no views record matches
C6_UnmatchedEntryKept ==
    /\ fpc = "returned"
    /\ \E c \in 1..Len(outcomes) :
           outcomes[c].kind = "ok" /\ Len(outcomes[c].data) = 2 /\ Len(EntriesOf(c)) = 2
    /\ \E i \in 1..Len(allPosts) :
           MatchingRecords(allPosts[i].url) = {} /\ allPosts[i].views = Num(0)

\* C10: at most one request is in flight, and one is in flight exactly while
\* a request has been issued whose outcome has not been handled; the requests
\* issued are those of the post types in list order, one each, all for the
\* configured page; when the function returns every category was requested
\* once.
C10_OneRequestAtATime ==
    /\ inFlight \in {0, 1}
    /\ inFlight = Len(requests) - Len(outcomes)
    /\ Len(requests) <= Len(fArgs.postTypes)
    /\ \A i \in 1..Len(requests) :
           /\ requests[i].type = fArgs.postTypes[i]
           /\ requests[i].page = fArgs.page
           /\ requests[i].per_page = fArgs.perPage
    /\ (fpc = "returned") => Len(requests) = Len(fArgs.postTypes)

\* C10 witness: the function has returned after a full page, a failed request
\* and a response whose handling threw
C10_FullPageNotFollowed ==
    /\ fpc = "returned"
    /\ Len(requests) = 3
    /\ \E c \in 1..Len(outcomes) :
           outcomes[c].kind = "ok" /\ Len(outcomes[c].data) = fArgs.perPage
    /\ \E c \in 1..Len(outcomes) : outcomes[c].kind \in {"network", "status"}
    /\ \E c \in 1..Len(outcomes) : outcomes[c].kind = "threw"

-----------------------------------------------------------------------------
(* Properties of generateMarkdownOutput, checked under SpecRender *)

\* the calendar day a YYYY-MM-DD string names, as one number
DayNumber(str) ==
    LeadingDigitsValue(SubSeq(str, 1, 4), 1, 0) * 10000
        + LeadingDigitsValue(SubSeq(str, 6, 7), 1, 0) * 100
        + LeadingDigitsValue(SubSeq(str, 9, 10), 1, 0)

\* C9: the report has one row per entry and the rows are a permutation of
\* the entries; the rows are in ascending order of publication date, and
\* rows of the same date are in the order their entries were passed in.
\* (The id of a drawn entry is its position in the input.)
C9_RowsSortedStable ==
    (pc = "rendered") =>
        /\ Len(markdown) = Len(sortInput)
        /\ {markdown[i].id : i \in 1..Len(markdown)} = 1..Len(sortInput)
        /\ \A i \in 1..Len(markdown) :
               markdown[i].date = sortInput[markdown[i].id].publication_date
        /\ \A i, j \in 1..Len(markdown) :
               i < j =>
                   \/ DayNumber(markdown[i].date) < DayNumber(markdown[j].date)
                   \/ /\ DayNumber(markdown[i].date) = DayNumber(markdown[j].date)
                      /\ markdown[i].id < markdown[j].id

\* C9 witness: the dates 2024-11-05, 2024-10-10, 2024-11-05 are rendered as
\* the second entry, then the first, then the third
C9_TieKeepsInputOrder ==
    /\ pc = "rendered"
    /\ [i \in 1..Len(sortInput) |-> sortInput[i].publication_date]
           = <<IsoDate(<<2024, 11, 5>>), IsoDate(<<2024, 10, 10>>), IsoDate(<<2024, 11, 5>>)>>
    /\ [i \in 1..Len(markdown) |-> markdown[i].id] = <<2, 1, 3>>

-----------------------------------------------------------------------------
(* Properties of main, checked under Spec *)

Exited == pc \in {"done", "fatal", "dateExit"}

BadDateArg == dateArg # <<>> /\ ~DateParses(dateArg)

\* C7 as stated: in a run whose date argument cannot be parsed no request is
\* issued and no report is written, and the process exits with a non-zero
\* code after the CSV import and the views_data.json dump were performed.
C7_ExitsAfterImportAndDump ==
    BadDateArg =>
        /\ requests = <<>>
        /\ reportWrites = <<>>
        /\ Exited => (exitCode # 0 /\ cpc = "done" /\ dumpWrites = 1)

\* C7, amended: in a run whose date argument cannot be parsed no request is
\* issued, no report is written and the process exits with a non-zero code
\* only; the exit taken for the date argument comes after the CSV import and
\* the views_data.json dump, and any other exit is the fatal one of a CSV
\* file that could not be read or parsed or of a dump that could not be
\* written, taken before the date argument is looked at.
C7_BadDateExitsNonZero ==
    BadDateArg =>
        /\ requests = <<>>
        /\ inFlight = 0
        /\ fpc = "idle"
        /\ reportWrites = <<>>
        /\ pc \in {"start", "csv", "date", "fatal", "dateExit"}
        /\ Exited => exitCode = 1
        /\ ~Exited => exitCode = -1
        /\ (pc = "dateExit") => (cpc = "done" /\ dumpWrites = 1)
        /\ (pc = "fatal") => (cpc = "idle" \/ (cpc = "done" /\ dumpWrites = 1))

\* C7 witness: the process has exited for the date argument after a CSV file
\* with a row was imported and dumped
C7_ExitedForTheDate ==
    /\ BadDateArg
    /\ pc = "dateExit"
    /\ exitCode = 1
    /\ processed = 1
    /\ Len(viewsData) = 1
    /\ dumpWrites = 1

=============================================================================
